---- MODULE Spec2Model ----
(***************************************************************************)
(* Model of the LLM prompts repository front end: the detail modal         *)
(* (PromptModal.jsx: separatePromptAndExample, parseCategory) and the      *)
(* add-prompt page (AddPromptPage.jsx: loadPrompts, handleSubmit) talking  *)
(* to the prompt store behind /api/prompts, the clients of that API        *)
(* (utils/api.js, the HomePage filter handlers) and the store itself.      *)
(*                                                                         *)
(* A JavaScript string is a sequence of lexemes: a lexeme is a whitespace  *)
(* character (" ", "\n"), a punctuation mark or a word.  Offsets, trimming,*)
(* searching and splitting work on these sequences exactly as the string   *)
(* methods work on characters; offsets are 0-based as in JavaScript.  Only  *)
(* the length and the cut of a preview (truncateText) count characters.    *)
(***************************************************************************)
EXTENDS Integers, Sequences, FiniteSets, TLC

VARIABLES
    prompt,           \* PromptModal: the `prompt` prop (prompt_text, category)
    modalShown,       \* PromptModal: TRUE once the component has rendered
    promptText,       \* PromptModal: const promptText   (line 114)
    exampleText,      \* PromptModal: const exampleText  (line 114)
    mainCategory,     \* PromptModal: const mainCategory (line 113)
    subCategory,      \* PromptModal: const subCategory  (line 113)
    store,            \* the prompts table behind the API, in insertion order
    formData,         \* AddPromptPage: formData state (title, category)
    existingPrompts,  \* AddPromptPage: existingPrompts state
    loadState,        \* AddPromptPage: position of the loadPrompts effect
    submitState,      \* AddPromptPage: position of handleSubmit
    submitting,       \* AddPromptPage: submitting state
    error,            \* AddPromptPage: error state
    success,          \* AddPromptPage: success state
    createReq,        \* the promptData of the create request in flight, or Null
    starts,           \* how many times the backend process has started
    fetches,          \* promptsAPI.getPrompt calls: request and response
    categoryCounts,   \* AddPromptPage / HomePage: categoryCounts state
    request,          \* the query parameters of GET /api/prompts
    response,         \* the data of the last list or categories response
    cardShown,        \* PromptCard: TRUE once the card has rendered
    promptOnlyText,   \* PromptCard: const promptOnlyText (line 56)
    preview,          \* PromptCard: the text of the preview paragraph (line 96)
    clipboard,        \* what navigator.clipboard.writeText was last called with
    categories,       \* useCategories: categories state
    allHierarchicalCategories,  \* AddPromptPage: const allHierarchicalCategories
    filters,          \* HomePage: filters state
    prompts,          \* usePrompts: prompts state
    loading,          \* usePrompts: loading state
    hookError,        \* usePrompts: error state
    listFetches,      \* usePrompts: the fetchPrompts calls and their state
    selectedPrompt,   \* HomePage: selectedPrompt state
    opens             \* HomePage: the openPromptModal calls and their state

vars == <<prompt, modalShown, promptText, exampleText, mainCategory, subCategory,
          store, formData, existingPrompts, loadState, submitState, submitting,
          error, success, createReq, starts, fetches, categoryCounts, request,
          response, cardShown, promptOnlyText, preview, clipboard, categories,
          allHierarchicalCategories, filters, prompts, loading, hookError,
          listFetches, selectedPrompt, opens>>

modalVars == <<prompt, modalShown, promptText, exampleText, mainCategory, subCategory>>
pageVars == <<store, formData, existingPrompts, loadState, submitState, submitting,
              error, success, createReq>>
formVars == <<formData, existingPrompts, loadState, submitState, submitting,
              error, success, createReq>>
apiVars == <<starts, fetches, categoryCounts, request, response>>
cardVars == <<cardShown, promptOnlyText, preview, clipboard>>
pickerVars == <<categories, allHierarchicalCategories>>
hookVars == <<filters, prompts, loading, hookError, listFetches>>
homeVars == <<hookVars, selectedPrompt, opens>>
viewVars == <<cardVars, pickerVars, homeVars>>

-----------------------------------------------------------------------------
(* Bounds of the model *)

MaxPieces == 3        \* a body is a concatenation of at most this many pieces
MaxCatPieces == 5     \* a category is a concatenation of at most this many pieces
MaxExisting == 1      \* artifacts in the store when the page is opened
MaxStore == 2         \* artifacts the store can hold in a run
MaxFetches == 2       \* single-item fetches issued in a run
MaxStarts == 2        \* starts of the backend process in a run
MaxArtifacts == 3     \* artifacts in the store a list query is run on
MaxListFetches == 3   \* list fetches usePrompts issues in a run
MaxFormPieces == 2    \* a prompt or example typed into the form has at most this many pieces

-----------------------------------------------------------------------------
(* JavaScript values and string methods *)

\* JavaScript null: a value no string equals
Null == <<"<null>">>

WhiteSpace == {" ", "\n"}

RECURSIVE trimStart(_)
trimStart(s) ==
    IF s # <<>> /\ Head(s) \in WhiteSpace THEN trimStart(Tail(s)) ELSE s

RECURSIVE trimEnd(_)
trimEnd(s) ==
    IF s # <<>> /\ s[Len(s)] \in WhiteSpace
    THEN trimEnd(SubSeq(s, 1, Len(s) - 1))
    ELSE s

\* String.prototype.trim
trim(s) == trimEnd(trimStart(s))

\* String.prototype.substring(a, b), 0 <= a <= b <= length
substring(s, a, b) == SubSeq(s, a + 1, b)

\* pat occurs in s at 0-based offset i
occursAt(s, pat, i) ==
    /\ i + Len(pat) <= Len(s)
    /\ \A j \in 1..Len(pat) : s[i + j] = pat[j]

\* String.prototype.indexOf(pat, i): offset of the first occurrence at or after i, or -1
RECURSIVE indexOfFrom(_, _, _)
indexOfFrom(s, pat, i) ==
    IF i + Len(pat) > Len(s)
    THEN -1
    ELSE IF occursAt(s, pat, i) THEN i ELSE indexOfFrom(s, pat, i + 1)

\* String.prototype.indexOf(pat)
indexOf(s, pat) == indexOfFrom(s, pat, 0)

\* String.prototype.includes
includes(s, pat) == indexOf(s, pat) # -1

\* String.prototype.split(sep) with a non-empty separator: cut at every
\* occurrence, left to right, without overlap
RECURSIVE split(_, _)
split(s, sep) ==
    LET i == indexOf(s, sep)
    IN  IF i = -1
        THEN <<s>>
        ELSE <<substring(s, 0, i)>> \o split(substring(s, i + Len(sep), Len(s)), sep)

\* lower-case form of one lexeme
lowerLexeme(c) ==
    CASE c = "Example" -> "example"
      [] c = "EXAMPLE" -> "example"
      [] c = "Sample" -> "sample"
      [] c = "Output" -> "output"
      [] c = "Expected" -> "expected"
      [] c = "Input" -> "input"
      [] c = "Answer" -> "answer"
      [] c = "Analysis" -> "analysis"
      [] c = "Classification" -> "classification"
      [] c = "A" -> "a"
      [] c = "B" -> "b"
      [] OTHER -> c

\* String.prototype.toLowerCase
toLowerCase(s) == [i \in 1..Len(s) |-> lowerLexeme(s[i])]

-----------------------------------------------------------------------------
(* PromptModal.jsx: separatePromptAndExample *)

\* the literal '---EXAMPLE---'
ExampleDelimiter == <<"---", "EXAMPLE", "---">>

\* const markers = [...]
markers ==
    << <<"Example", ":">>,
       <<"Example", " ", "Output", ":">>,
       <<"Sample", " ", "Output", ":">>,
       <<"Sample", " ", "Expected", " ", "Output", ":">>,
       <<"Example", " ", "Input", ":">>,
       <<"Sample", " ", "Answer", ":">>,
       <<"Example", " ", "Analysis", ":">>,
       <<"Example", " ", "Classification", ":">>,
       <<"Sample", " ", "Example", ":">> >>

\* the regular expression `\\n${marker}` with flag i matches text at offset i
matchesAt(text, marker, i) ==
    LET pat == <<"\n">> \o marker
    IN  /\ i + Len(pat) <= Len(text)
        /\ \A j \in 1..Len(pat) : lowerLexeme(text[i + j]) = lowerLexeme(pat[j])

RECURSIVE firstMatchFrom(_, _, _)
firstMatchFrom(text, marker, i) ==
    IF i > Len(text)
    THEN -1
    ELSE IF matchesAt(text, marker, i) THEN i ELSE firstMatchFrom(text, marker, i + 1)

matchIndexCaseSensitive(text, marker) ==
    indexOf(text, <<"\n">> \o marker)

\* text.match(new RegExp(`\\n${marker}`, 'i')): index of the first match, -1 for no match
matchIndex(text, marker) == firstMatchFrom(text, marker, 0)

markerStepFirstWins(splitIndex, idx) ==
    IF idx # -1 /\ splitIndex = -1 THEN idx ELSE splitIndex

\* one iteration of `for (const marker of markers)`: the new splitIndex
markerStep(splitIndex, idx) ==
    IF idx # -1 /\ (splitIndex = -1 \/ idx < splitIndex) THEN idx ELSE splitIndex

\* the loop over markers from the k-th on, with the running splitIndex
RECURSIVE scanMarkers(_, _, _)
scanMarkers(text, k, splitIndex) ==
    IF k > Len(markers)
    THEN splitIndex
    ELSE scanMarkers(text, k + 1, markerStep(splitIndex, matchIndex(text, markers[k])))

\* the explicit-marker branch
splitAtDelimiter(text) ==
    LET parts == split(text, ExampleDelimiter)
    IN  [prompt |-> trim(parts[1]),
         example |-> IF Len(parts) > 1 THEN trim(parts[2]) ELSE Null]

splitAtMarkerNoTrim(text) ==
    LET splitIndex == scanMarkers(text, 1, -1)
    IN  IF splitIndex # -1
        THEN [prompt |-> trim(substring(text, 0, splitIndex)),
              example |-> trim(substring(text, splitIndex, Len(text)))]
        ELSE [prompt |-> text, example |-> Null]

\* the fallback branch: the marker loop and the two returns after it
splitAtMarker(text) ==
    LET splitIndex == scanMarkers(text, 1, -1)
    IN  IF splitIndex # -1
        THEN [prompt |-> trim(substring(text, 0, splitIndex)),
              example |-> trim(substring(text, splitIndex, Len(text)))]
        ELSE [prompt |-> trim(text), example |-> Null]

separatePromptAndExampleNoPrecedence(text) ==
    IF text = <<>>
    THEN [prompt |-> <<>>, example |-> Null]
    ELSE IF scanMarkers(text, 1, -1) # -1
         THEN splitAtMarker(text)
         ELSE IF includes(text, ExampleDelimiter)
              THEN splitAtDelimiter(text)
              ELSE splitAtMarker(text)

separatePromptAndExample(text) ==
    IF text = <<>>
    THEN [prompt |-> <<>>, example |-> Null]
    ELSE IF includes(text, ExampleDelimiter)
         THEN splitAtDelimiter(text)
         ELSE splitAtMarker(text)

-----------------------------------------------------------------------------
(* PromptModal.jsx / PromptCard.jsx: parseCategory *)

\* the literal ' > '
CategorySeparator == <<" ", ">", " ">>

parseCategory(category) ==
    IF category # <<>> /\ includes(category, CategorySeparator)
    THEN LET parts == split(category, CategorySeparator)
         IN  [main |-> parts[1], sub |-> parts[2]]
    ELSE [main |-> Null, sub |-> category]

-----------------------------------------------------------------------------
(* Inputs *)

\* all concatenations of at most n pieces of P
RECURSIVE Concats(_, _)
Concats(P, n) ==
    IF n = 0
    THEN {<<>>}
    ELSE LET prev == Concats(P, n - 1)
         IN  prev \cup {s \o p : s \in prev, p \in P}

BodyPieces ==
    {<<"a">>, <<" ">>, <<"\n">>, ExampleDelimiter, <<"example", ":">>}
    \cup {<<"\n">> \o markers[k] : k \in 1..Len(markers)}

\* the prompt_text values a modal is opened with
Bodies == Concats(BodyPieces, MaxPieces)

CategoryPieces == {<<"A">>, <<"B">>, <<" ">>, <<">">>, CategorySeparator}

\* the category values a modal is opened with
Categories == Concats(CategoryPieces, MaxCatPieces)

-----------------------------------------------------------------------------
(* PromptModal.jsx: the component *)

\* no prompt is shown
NoPrompt == [prompt_text |-> <<>>, category |-> <<>>]

\* {selectedPrompt && <PromptModal prompt={selectedPrompt} />}: the modal renders
RenderModal ==
    /\ prompt # NoPrompt
    /\ ~modalShown
    /\ modalShown' = TRUE
    /\ LET c == parseCategory(prompt.category)
           t == separatePromptAndExample(prompt.prompt_text)
       IN  /\ mainCategory' = c.main
           /\ subCategory' = c.sub
           /\ promptText' = t.prompt
           /\ exampleText' = t.example
    /\ UNCHANGED <<prompt, pageVars, apiVars, viewVars>>

-----------------------------------------------------------------------------
(* PromptCard.jsx *)

\* handleCopy: let textToCopy = ...
textToCopy(text) ==
    IF includes(text, ExampleDelimiter)
    THEN trim(split(text, ExampleDelimiter)[1])
    ELSE text

\* truncateText = (text, maxLength = 150)
DefaultMaxLength == 150

\* String.prototype.length: the characters of the lexemes of s
RECURSIVE length(_)
length(s) == IF s = <<>> THEN 0 ELSE Len(Head(s)) + length(Tail(s))

\* text.substring(0, n): the first n characters of s, the last lexeme cut short
\* when the n-th character is inside it
RECURSIVE firstChars(_, _)
firstChars(s, n) ==
    IF s = <<>> \/ n <= 0
    THEN <<>>
    ELSE IF Len(Head(s)) <= n
         THEN <<Head(s)>> \o firstChars(Tail(s), n - Len(Head(s)))
         ELSE <<SubSeq(Head(s), 1, n)>>

truncateText(text, maxLength) ==
    IF length(text) <= maxLength
    THEN text
    ELSE firstChars(text, maxLength) \o <<"...">>

\* const exampleMarkers = ['Example:', 'Sample Output:', 'Example Output:']
exampleMarkers ==
    << <<"Example", ":">>,
       <<"Sample", " ", "Output", ":">>,
       <<"Example", " ", "Output", ":">> >>

\* for (const marker of exampleMarkers), from the k-th marker on: the index of
\* the first marker of the list that occurs after a newline, or -1
RECURSIVE firstMarkerIndex(_, _)
firstMarkerIndex(text, k) ==
    IF k > Len(exampleMarkers)
    THEN -1
    ELSE LET index == indexOf(text, <<"\n">> \o exampleMarkers[k])
         IN  IF index # -1 THEN index ELSE firstMarkerIndex(text, k + 1)

getPromptOnly(text) ==
    IF text = <<>>
    THEN <<>>
    ELSE IF includes(text, ExampleDelimiter)
         THEN trim(split(text, ExampleDelimiter)[1])
         ELSE LET index == firstMarkerIndex(text, 1)
              IN  IF index # -1 THEN trim(substring(text, 0, index)) ELSE text

\* nothing was written to the clipboard
NoClip == [by |-> "none", text |-> <<>>]

\* the card renders
RenderCard ==
    /\ ~cardShown
    /\ cardShown' = TRUE
    /\ promptOnlyText' = getPromptOnly(prompt.prompt_text)
    /\ preview' = truncateText(promptOnlyText', DefaultMaxLength)
    /\ UNCHANGED <<modalVars, pageVars, apiVars, clipboard, pickerVars, homeVars>>

\* PromptCard handleCopy: the copy button of the card
CardCopy ==
    /\ cardShown
    /\ clipboard' = [by |-> "card", text |-> textToCopy(prompt.prompt_text)]
    /\ UNCHANGED <<modalVars, pageVars, apiVars, cardShown, promptOnlyText, preview,
                   pickerVars, homeVars>>

\* PromptModal handleCopy: the copy button of the detail modal
ModalCopy ==
    /\ modalShown
    /\ clipboard' = [by |-> "modal", text |-> promptText]
    /\ UNCHANGED <<modalVars, pageVars, apiVars, cardShown, promptOnlyText, preview,
                   pickerVars, homeVars>>

-----------------------------------------------------------------------------
(* The prompt store behind the API *)

\* created_at DEFAULT NOW(): the time of an insert into db, later than the
\* time of every insert before it
nextTime(db) == IF db = <<>> THEN 1 ELSE db[Len(db)].created_at + 1

\* an insert that counts the creation as a first view
createPromptViewed(db, promptData) ==
    Append(db, [id |-> Len(db) + 1, views |-> 1, created_at |-> nextTime(db)]
                   @@ promptData)

\* POST /api/prompts: the table after the insert of promptData; the new row
\* has the fields of promptData, the next id, views 0 and the time of the insert
createPrompt(db, promptData) ==
    Append(db, [id |-> Len(db) + 1, views |-> 0, created_at |-> nextTime(db)]
                   @@ promptData)

\* GET /api/prompts/{id}: the table after the view of row id was counted
getByIdTwice(db, id) == [db EXCEPT ![id].views = @ + 2]

getById(db, id) == [db EXCEPT ![id].views = @ + 1]

\* limit - Max results (default: 100)
DefaultLimit == 100

\* stage 1 of the list query: the rows whose category is the filter value
categoryFilterBySub(artifacts, q) ==
    IF "category" \in DOMAIN q
    THEN SelectSeq(artifacts,
                   LAMBDA a : parseCategory(a.category).sub = parseCategory(q.category).sub)
    ELSE artifacts

categoryFilter(artifacts, q) ==
    IF "category" \in DOMAIN q
    THEN SelectSeq(artifacts, LAMBDA a : a.category = q.category)
    ELSE artifacts

\* the term occurs in s, letter case ignored
containsIgnoreCase(s, term) == includes(toLowerCase(s), toLowerCase(term))

\* stage 2: the rows with the term in the title, the text or a tag
searchMatchesTitleOrText(a, term) ==
    \/ containsIgnoreCase(a.title, term)
    \/ containsIgnoreCase(a.prompt_text, term)

searchMatches(a, term) ==
    \/ containsIgnoreCase(a.title, term)
    \/ containsIgnoreCase(a.prompt_text, term)
    \/ \E k \in 1..Len(a.tags) : containsIgnoreCase(a.tags[k], term)

searchFilter(artifacts, q) ==
    IF "search" \in DOMAIN q /\ trim(q.search) # <<>>
    THEN SelectSeq(artifacts, LAMBDA a : searchMatches(a, q.search))
    ELSE artifacts

\* stage 3: a comes before b in the list.  Rows equal in views and created_at
\* are listed by id, newest first.
precedesByDate(a, b, sortKey) ==
    \/ a.created_at > b.created_at
    \/ a.created_at = b.created_at /\ a.id > b.id

precedes(a, b, sortKey) ==
    IF sortKey = "popularity"
    THEN \/ a.views > b.views
         \/ a.views = b.views /\ a.created_at > b.created_at
         \/ a.views = b.views /\ a.created_at = b.created_at /\ a.id > b.id
    ELSE \/ a.created_at > b.created_at
         \/ a.created_at = b.created_at /\ a.id > b.id

RECURSIVE insertSorted(_, _, _)
insertSorted(a, sorted, sortKey) ==
    IF sorted = <<>>
    THEN <<a>>
    ELSE IF precedes(a, Head(sorted), sortKey)
         THEN <<a>> \o sorted
         ELSE <<Head(sorted)>> \o insertSorted(a, Tail(sorted), sortKey)

RECURSIVE sortArtifacts(_, _)
sortArtifacts(artifacts, sortKey) ==
    IF artifacts = <<>>
    THEN <<>>
    ELSE insertSorted(Head(artifacts), sortArtifacts(Tail(artifacts), sortKey), sortKey)

\* stage 4: skip offset rows, then keep at most limit rows
paginateLimitFirst(sorted, q) ==
    LET offset == IF "offset" \in DOMAIN q THEN q.offset ELSE 0
        limit == IF "limit" \in DOMAIN q THEN q.limit ELSE DefaultLimit
        cut == SubSeq(sorted, 1, IF limit < Len(sorted) THEN limit ELSE Len(sorted))
    IN  IF limit <= 0 THEN <<>> ELSE SubSeq(cut, offset + 1, Len(cut))

paginate(sorted, q) ==
    LET offset == IF "offset" \in DOMAIN q THEN q.offset ELSE 0
        limit == IF "limit" \in DOMAIN q THEN q.limit ELSE DefaultLimit
        last == IF offset + limit < Len(sorted) THEN offset + limit ELSE Len(sorted)
    IN  IF limit <= 0 THEN <<>> ELSE SubSeq(sorted, offset + 1, last)

\* sort - Sort by `date` or `popularity`
sortKeyOf(q) == IF "sort" \in DOMAIN q THEN q.sort ELSE "date"

\* GET /api/prompts?category=&search=&sort=&limit=&offset=: q holds the
\* parameters that are present
query(artifacts, q) ==
    paginate(sortArtifacts(searchFilter(categoryFilter(artifacts, q), q), sortKeyOf(q)), q)

\* GET /api/prompts?limit=n: newest first, at most n records
getPrompts(db, limit) ==
    query(db, [limit |-> limit])

\* GET /api/categories: the category strings in use
getCategories(db) == {db[i].category : i \in 1..Len(db)}

\* how often each raw category string occurs
RECURSIVE countsByCategory(_)
countsByCategory(artifacts) ==
    IF artifacts = <<>>
    THEN [c \in {} |-> 0]
    ELSE LET rest == countsByCategory(Tail(artifacts))
             c == Head(artifacts).category
         IN  IF c \in DOMAIN rest
             THEN [rest EXCEPT ![c] = @ + 1]
             ELSE (c :> 1) @@ rest

\* GET /api/stats
stats(db) == [total |-> Len(db), categories |-> countsByCategory(db)]

-----------------------------------------------------------------------------
(* AddPromptPage.jsx *)

\* fetch('http://localhost:8000/api/prompts?limit=500')
LoadLimit == 500

DuplicateMessage ==
    <<"A prompt with this title and category already exists. Please use a different title or category.">>

\* err.message || 'Failed to create prompt'
CreateFailedMessage == <<"Failed to create prompt">>

\* useState({title: '', prompt_text: '', example_output: '', ...})
EmptyForm ==
    [title |-> <<>>, prompt_text |-> <<>>, example_output |-> <<>>,
     category |-> <<>>, tags |-> <<>>, source |-> <<>>]

\* titles typed into the form
Titles == {<<"A">>, <<"a">>, <<" ", "A">>, <<"a", " ">>, <<"B">>}

CategoryAB == <<"A", " ", ">", " ", "B">>
CategoryBA == <<"B", " ", ">", " ", "A">>

\* the options of the category select
FormCategories == {CategoryAB, CategoryBA}

\* category strings of stored artifacts
StoredCategories ==
    {CategoryAB, toLowerCase(CategoryAB), CategoryAB \o <<" ">>, CategoryBA}

\* sequences over S of length at most n
RECURSIVE SeqsUpTo(_, _)
SeqsUpTo(S, n) ==
    IF n = 0
    THEN {<<>>}
    ELSE LET prev == SeqsUpTo(S, n - 1)
         IN  prev \cup {Append(q, x) : q \in prev, x \in S}

\* the table built by the inserts of the promptData in q, in order
RECURSIVE tableOf(_)
tableOf(q) ==
    IF q = <<>>
    THEN <<>>
    ELSE createPrompt(tableOf(SubSeq(q, 1, Len(q) - 1)), q[Len(q)])

\* const isDuplicate = existingPrompts.some(...)
isDuplicate(existing, form) ==
    \E i \in 1..Len(existing) :
        /\ toLowerCase(trim(existing[i].title)) = toLowerCase(trim(form.title))
        /\ toLowerCase(existing[i].category) = toLowerCase(form.category)

\* useEffect: loadPrompts, the response arrived
LoadPromptsOk ==
    /\ loadState = "pending"
    /\ loadState' = "done"
    /\ existingPrompts' = getPrompts(store, LoadLimit)
    /\ UNCHANGED <<modalVars, viewVars, apiVars, store, formData, submitState, submitting, error,
                   success, createReq>>

\* useEffect: loadPrompts, the fetch failed (catch)
LoadPromptsFail ==
    /\ loadState = "pending"
    /\ loadState' = "failed"
    /\ UNCHANGED <<modalVars, viewVars, apiVars, store, formData, existingPrompts, submitState,
                   submitting, error, success, createReq>>

\* handleChange on the title input
HandleChangeTitle ==
    \E value \in {<<"A">>, <<"a">>, <<"B">>} :
        /\ formData' = [formData EXCEPT !.title = value]
        /\ UNCHANGED <<modalVars, viewVars, apiVars, store, existingPrompts, loadState, submitState,
                       submitting, error, success, createReq>>

\* handleChange on the category select
HandleChangeCategory ==
    \E value \in FormCategories \cup {<<>>} :
        /\ formData' = [formData EXCEPT !.category = value]
        /\ UNCHANGED <<modalVars, viewVars, apiVars, store, existingPrompts, loadState, submitState,
                       submitting, error, success, createReq>>

\* handleChange on the prompt textarea
HandleChangePromptText ==
    \E value \in {<<"a">>} :
        /\ formData' = [formData EXCEPT !.prompt_text = value]
        /\ UNCHANGED <<modalVars, viewVars, apiVars, store, existingPrompts, loadState,
                       submitState, submitting, error, success, createReq>>

\* the form can be submitted: the required fields filled, button enabled
CanSubmit ==
    /\ submitState = "idle"
    /\ ~submitting
    /\ formData.title # <<>>
    /\ formData.category # <<>>
    /\ formData.prompt_text # <<>>

\* the literal '\n\n---EXAMPLE---\n\n'
ExampleJoint == <<"\n", "\n">> \o ExampleDelimiter \o <<"\n", "\n">>

\* let finalPromptText = ...: the prompt with the example appended after the marker
finalPromptText(form) ==
    IF trim(form.example_output) # <<>>
    THEN form.prompt_text \o ExampleJoint \o form.example_output
    ELSE form.prompt_text

\* Array.prototype.map(tag => tag.trim())
trimAll(parts) == [i \in 1..Len(parts) |-> trim(parts[i])]

\* a tag list that keeps the empty pieces
tagsOfUnfiltered(tags) == trimAll(split(tags, <<",">>))

\* formData.tags.split(',').map(tag => tag.trim()).filter(Boolean)
tagsOf(tags) == SelectSeq(trimAll(split(tags, <<",">>)), LAMBDA tag : tag # <<>>)

\* const promptData = {...}
promptDataOf(form) ==
    [title |-> form.title,
     prompt_text |-> finalPromptText(form),
     category |-> form.category,
     tags |-> tagsOf(form.tags),
     source |-> IF form.source # <<>> THEN form.source ELSE Null]

\* the duplicate check as a validation after the request was sent
SubmitDuplicatePostHoc ==
    /\ CanSubmit
    /\ isDuplicate(existingPrompts, formData)
    /\ error' = DuplicateMessage
    /\ submitting' = TRUE
    /\ createReq' = promptDataOf(formData)
    /\ submitState' = "creating"
    /\ UNCHANGED <<modalVars, viewVars, apiVars, store, formData, existingPrompts, loadState, success>>

\* handleSubmit, the duplicate check found a collision
SubmitDuplicate ==
    /\ CanSubmit
    /\ isDuplicate(existingPrompts, formData)
    /\ error' = DuplicateMessage
    /\ UNCHANGED <<modalVars, viewVars, apiVars, store, formData, existingPrompts, loadState,
                   submitState, submitting, success, createReq>>

\* handleSubmit, the duplicate check passed: up to the await of createPrompt
SubmitCreate ==
    /\ CanSubmit
    /\ ~isDuplicate(existingPrompts, formData)
    /\ submitting' = TRUE
    /\ error' = <<>>
    /\ createReq' = promptDataOf(formData)
    /\ submitState' = "creating"
    /\ UNCHANGED <<modalVars, viewVars, apiVars, store, formData, existingPrompts, loadState, success>>

\* handleSubmit after the await: createPrompt resolved
CreateOk ==
    /\ submitState = "creating"
    /\ Len(store) < MaxStore
    /\ store' = createPrompt(store, createReq)
    /\ formData' = EmptyForm
    /\ success' = TRUE
    /\ submitting' = FALSE
    /\ submitState' = "idle"
    /\ createReq' = Null
    /\ UNCHANGED <<modalVars, viewVars, apiVars, existingPrompts, loadState, error>>

\* a catch without the finally block
CreateFailNoFinally ==
    /\ submitState = "creating"
    /\ error' = CreateFailedMessage
    /\ submitState' = "idle"
    /\ createReq' = Null
    /\ UNCHANGED <<modalVars, viewVars, apiVars, store, formData, existingPrompts, loadState,
                   success, submitting>>

\* handleSubmit after the await: createPrompt rejected (catch, finally)
CreateFail ==
    /\ submitState = "creating"
    /\ error' = CreateFailedMessage
    /\ submitting' = FALSE
    /\ submitState' = "idle"
    /\ createReq' = Null
    /\ UNCHANGED <<modalVars, viewVars, apiVars, store, formData, existingPrompts, loadState, success>>

\* setTimeout(() => setSuccess(false), 3000)
SuccessTimeout ==
    /\ success
    /\ success' = FALSE
    /\ UNCHANGED <<modalVars, viewVars, apiVars, store, formData, existingPrompts, loadState,
                   submitState, submitting, error, createReq>>

\* another client of the API creates a prompt
OtherClientCreate ==
    \E t \in {<<"A">>, <<"B">>}, c \in FormCategories :
        /\ Len(store) < MaxStore
        /\ store' = createPrompt(store, [title |-> t, prompt_text |-> <<"a">>,
                                         category |-> c, tags |-> <<>>,
                                         source |-> Null])
        /\ UNCHANGED <<modalVars, viewVars, apiVars, formData, existingPrompts, loadState, submitState,
                       submitting, error, success, createReq>>

\* useEffect: fetchCategoryCounts, the response of /api/stats arrived
FetchCategoryCounts ==
    /\ categoryCounts' = stats(store).categories
    /\ UNCHANGED <<modalVars, viewVars, pageVars, starts, fetches, request, response>>

\* the count shown next to the option subCat of the group mainCat
optionCountBySub(counts, mainCat, subCat) ==
    IF subCat \in DOMAIN counts THEN counts[subCat] ELSE 0

optionCount(counts, mainCat, subCat) ==
    LET fullCategory == mainCat \o CategorySeparator \o subCat
    IN  IF fullCategory \in DOMAIN counts THEN counts[fullCategory] ELSE 0

-----------------------------------------------------------------------------
(* AddPromptPage.jsx: the category picker *)

\* const categoryHierarchy = {...}: main label -> sub labels, in listed order
categoryHierarchy ==
    (<<"Data", " ", "Collection">> :>
        << <<"Data", " ", "Extraction", " ", "&", " ", "APIs">>,
           <<"Interview", " ", "Protocols">> >>)
    @@ (<<"Data", " ", "Preparation">> :>
        << <<"Text", " ", "Preprocessing">>,
           <<"Data", " ", "Cleaning">>,
           <<"Data", " ", "Formatting">> >>)
    @@ (<<"Text", " ", "Analysis">> :>
        << <<"Text", " ", "Summarization">>,
           <<"Text", " ", "Classification">>,
           <<"Sentiment", " ", "Analysis">>,
           <<"Word", " ", "Frequency", " ", "&", " ", "Patterns">> >>)
    @@ (<<"Academic", " ", "Writing">> :>
        << <<"Literature", " ", "Review">>,
           <<"Research", " ", "Papers">>,
           <<"Reports", " ", "&", " ", "Presentations">> >>)
    @@ (<<"Advanced", " ", "Methods">> :>
        << <<"Model", " ", "Fine-tuning">>,
           <<"Custom", " ", "API", " ", "Integration">> >>)

\* Array.prototype.includes
arrayIncludes(arr, x) == \E i \in 1..Len(arr) : arr[i] = x

\* the body of categories.forEach(cat => ...): the hierarchy h after cat
addCategory(h, cat) ==
    IF includes(cat, CategorySeparator)
    THEN LET parts == split(cat, CategorySeparator)
             main == parts[1]
             sub == parts[2]
             withMain == IF main \in DOMAIN h THEN h ELSE (main :> <<>>) @@ h
         IN  IF arrayIncludes(withMain[main], sub)
             THEN withMain
             ELSE [withMain EXCEPT ![main] = Append(@, sub)]
    ELSE h

\* { ...categoryHierarchy } followed by categories.forEach
RECURSIVE combineCategories(_, _)
combineCategories(h, cats) ==
    IF cats = <<>>
    THEN h
    ELSE combineCategories(addCategory(h, Head(cats)), Tail(cats))

\* the sequences that list every element of S once
Enumerations(S) ==
    {q \in [1..Cardinality(S) -> S] : \A i, j \in DOMAIN q : q[i] = q[j] => i = j}

\* useCategories: the effect of the mount, the response of /categories arrived
\* in some order of the categories; the page renders with the new state
FetchCategoriesOk ==
    /\ categories = <<>>
    /\ \E data \in Enumerations(getCategories(store)) :
          /\ categories' = data
          /\ allHierarchicalCategories' = combineCategories(categoryHierarchy, data)
    /\ UNCHANGED <<modalVars, pageVars, apiVars, cardVars, homeVars>>

\* useCategories: the request failed (catch)
FetchCategoriesFail ==
    /\ categories = <<>>
    /\ UNCHANGED vars

-----------------------------------------------------------------------------
(* HomePage: the filter handlers and the list request *)

\* A filters object is a function from its keys to their values.  A key set
\* to undefined is left out: JSON.stringify and the query string drop it.

\* useState({})
NoFilters == [k \in {} |-> <<>>]

\* {...obj, [key]: value}
withKey(obj, key, value) == (key :> value) @@ obj

\* {...obj, [key]: undefined}
withoutKey(obj, key) == [k \in DOMAIN obj \ {key} |-> obj[k]]

\* search: searchTerm || undefined
handleSearch(prev, searchTerm) ==
    IF searchTerm = <<>>
    THEN withoutKey(prev, "search")
    ELSE withKey(prev, "search", searchTerm)

\* category: category || undefined
handleCategoryChange(prev, category) ==
    IF category = <<>>
    THEN withoutKey(prev, "category")
    ELSE withKey(prev, "category", category)

handleSortChange(prev, sort) == withKey(prev, "sort", sort)

\* useState(null): no prompt is selected; the ids of stored prompts start at 1
NoSelection == [id |-> 0]

\* no list or categories request has been answered
NoResponse == [endpoint |-> "none", data |-> <<>>]

\* promptsAPI.getPrompts: the list for the parameters in request
GetPrompts ==
    /\ response' = [endpoint |-> "prompts", data |-> query(store, request)]
    /\ UNCHANGED <<modalVars, viewVars, pageVars, starts, fetches, categoryCounts, request>>

\* promptsAPI.getCategories
GetCategories ==
    /\ response' = [endpoint |-> "categories", data |-> getCategories(store)]
    /\ UNCHANGED <<modalVars, viewVars, pageVars, starts, fetches, categoryCounts, request>>

\* what the clients of the running store post
ApiPromptData ==
    {[title |-> <<"A">>, category |-> CategoryAB],
     [title |-> <<"A">>, category |-> <<"B">>]}

\* promptsAPI.createPrompt(promptData), called and answered
CreatePrompt ==
    \E promptData \in ApiPromptData :
        /\ Len(store) < MaxStore
        /\ store' = createPrompt(store, promptData)
        /\ UNCHANGED <<modalVars, viewVars, formVars, apiVars>>

\* promptsAPI.getPrompt(id): the request is sent
GetPrompt ==
    \E id \in 1..Len(store) :
        /\ Len(fetches) < MaxFetches
        /\ fetches' = Append(fetches, [id |-> id, status |-> "sent", data |-> Null])
        /\ UNCHANGED <<modalVars, viewVars, pageVars, starts, categoryCounts, request,
                       response>>

\* GET /api/prompts/{id} is served: the view is counted and the row returned
ServeGetPrompt ==
    \E k \in 1..Len(fetches) :
        /\ fetches[k].status = "sent"
        /\ store' = getById(store, fetches[k].id)
        /\ fetches' = [fetches EXCEPT ![k].status = "ok",
                                      ![k].data = store'[fetches[k].id]]
        /\ UNCHANGED <<modalVars, viewVars, formVars, starts, categoryCounts, request,
                       response>>

-----------------------------------------------------------------------------
(* usePrompts and HomePage: the list and the detail modal *)

\* err.message of a failed request
NetworkError == <<"Network Error">>

\* fetchPrompts is called with the filters f
startFetch(calls, f) == Append(calls, [filters |-> f, status |-> "sent", data |-> <<>>])

\* usePrompts: the effect of the mount; fetchPrompts up to its await
MountHome ==
    /\ listFetches = <<>>
    /\ loading' = TRUE
    /\ listFetches' = startFetch(listFetches, filters)
    /\ UNCHANGED <<modalVars, pageVars, apiVars, cardVars, pickerVars, filters, prompts,
                   hookError, selectedPrompt, opens>>

\* setFilters(next); when JSON.stringify(filters) changed, the effect of
\* usePrompts runs fetchPrompts up to its await
setFilters(next) ==
    /\ listFetches # <<>>
    /\ Len(listFetches) < MaxListFetches
    /\ filters' = next
    /\ IF next # filters
       THEN /\ loading' = TRUE
            /\ listFetches' = startFetch(listFetches, next)
       ELSE UNCHANGED <<loading, listFetches>>
    /\ UNCHANGED <<modalVars, pageVars, apiVars, cardVars, pickerVars, prompts, hookError,
                   selectedPrompt, opens>>

\* HomePage: handleSearch, handleCategoryChange or handleSortChange is called
ChangeFilters ==
    \/ \E searchTerm \in {<<>>, <<"example">>} :
           setFilters(handleSearch(filters, searchTerm))
    \/ \E category \in {<<>>, CategoryAB} :
           setFilters(handleCategoryChange(filters, category))
    \/ \E sort \in {"date", "popularity"} :
           setFilters(handleSortChange(filters, sort))

\* fetchPrompts after its await: the list of the call k arrived
FetchPromptsOk ==
    \E k \in 1..Len(listFetches) :
        /\ listFetches[k].status = "sent"
        /\ LET data == query(store, listFetches[k].filters)
           IN  /\ prompts' = data
               /\ listFetches' = [listFetches EXCEPT ![k].status = "ok", ![k].data = data]
        /\ hookError' = Null
        /\ loading' = FALSE
        /\ UNCHANGED <<modalVars, pageVars, apiVars, cardVars, pickerVars, filters,
                       selectedPrompt, opens>>

\* fetchPrompts after its await: the call k failed (catch, finally)
FetchPromptsFail ==
    \E k \in 1..Len(listFetches) :
        /\ listFetches[k].status = "sent"
        /\ listFetches' = [listFetches EXCEPT ![k].status = "failed"]
        /\ hookError' = NetworkError
        /\ loading' = FALSE
        /\ UNCHANGED <<modalVars, pageVars, apiVars, cardVars, pickerVars, filters, prompts,
                       selectedPrompt, opens>>

\* openPromptModal(prompt) up to its await: the card of a listed prompt is
\* clicked (the cards are rendered when loading is false) and
\* promptsAPI.getPrompt(prompt.id) is sent
OpenPromptModal ==
    \E i \in 1..Len(prompts) :
        /\ ~loading
        /\ Len(fetches) < MaxFetches
        /\ fetches' = Append(fetches, [id |-> prompts[i].id, status |-> "sent",
                                       data |-> Null])
        /\ opens' = Append(opens, [prompt |-> prompts[i], fetch |-> Len(fetches) + 1,
                                   done |-> FALSE])
        /\ UNCHANGED <<modalVars, pageVars, starts, categoryCounts, request, response,
                       cardVars, pickerVars, hookVars, selectedPrompt>>

\* a single-item request fails before the backend has served it
FailGetPrompt ==
    \E k \in 1..Len(fetches) :
        /\ fetches[k].status = "sent"
        /\ fetches' = [fetches EXCEPT ![k].status = "failed"]
        /\ UNCHANGED <<modalVars, pageVars, starts, categoryCounts, request, response,
                       viewVars>>

\* a map that puts the fetched record in front of the list
replaceByIdInFront(prevPrompts, id, updatedPrompt) ==
    <<updatedPrompt>> \o SelectSeq(prevPrompts, LAMBDA p : p.id # id)

\* prevPrompts.map(p => p.id === prompt.id ? updatedPrompt : p)
replaceById(prevPrompts, id, updatedPrompt) ==
    [i \in 1..Len(prevPrompts) |->
        IF prevPrompts[i].id = id THEN updatedPrompt ELSE prevPrompts[i]]

\* the modal is given p as its prompt and has to render
showInModal(p) ==
    /\ prompt' = p
    /\ modalShown' = FALSE
    /\ promptText' = Null
    /\ exampleText' = Null
    /\ mainCategory' = Null
    /\ subCategory' = Null

\* openPromptModal after its await: the fetched record arrived
OpenPromptModalOk ==
    \E k \in 1..Len(opens) :
        /\ ~opens[k].done
        /\ fetches[opens[k].fetch].status = "ok"
        /\ LET updatedPrompt == fetches[opens[k].fetch].data
           IN  /\ prompts' = replaceById(prompts, opens[k].prompt.id, updatedPrompt)
               /\ selectedPrompt' = updatedPrompt
               /\ showInModal(updatedPrompt)
        /\ opens' = [opens EXCEPT ![k].done = TRUE]
        /\ UNCHANGED <<pageVars, apiVars, cardVars, pickerVars, filters, loading,
                       hookError, listFetches>>

\* openPromptModal after its await: the request failed (catch)
OpenPromptModalFail ==
    \E k \in 1..Len(opens) :
        /\ ~opens[k].done
        /\ fetches[opens[k].fetch].status = "failed"
        /\ selectedPrompt' = opens[k].prompt
        /\ showInModal(opens[k].prompt)
        /\ opens' = [opens EXCEPT ![k].done = TRUE]
        /\ UNCHANGED <<pageVars, apiVars, cardVars, pickerVars, hookVars>>

\* closePromptModal
ClosePromptModal ==
    /\ selectedPrompt # NoSelection
    /\ selectedPrompt' = NoSelection
    /\ showInModal(NoPrompt)
    /\ UNCHANGED <<pageVars, apiVars, cardVars, pickerVars, hookVars, opens>>

-----------------------------------------------------------------------------
(* The backend process: the seed loader *)

\* the bundled example prompts, in listed order
SeedData ==
    <<[title |-> <<"S1">>, category |-> CategoryAB],
      [title |-> <<"S2">>, category |-> <<"B">>]>>

\* the elements of s whose index is not in failed, in order
RECURSIVE without(_, _)
without(s, failed) ==
    IF s = <<>>
    THEN <<>>
    ELSE LET front == without(SubSeq(s, 1, Len(s) - 1), failed)
         IN  IF Len(s) \in failed THEN front ELSE Append(front, s[Len(s)])

\* the rows of the records in q inserted into db in one go, at one time
insertAll(db, q) ==
    db \o [i \in 1..Len(q) |->
             [id |-> Len(db) + i, views |-> 0, created_at |-> nextTime(db)] @@ q[i]]

\* the seed loader; failed are the records whose insert fails
seedAlways(db, failed) == insertAll(db, without(SeedData, failed))

seed(db, failed) ==
    IF db # <<>> THEN db ELSE insertAll(db, without(SeedData, failed))

\* the backend process starts again
Startup ==
    /\ starts < MaxStarts
    /\ starts' = starts + 1
    /\ \E failed \in SUBSET (1..Len(SeedData)) : store' = seed(store, failed)
    /\ UNCHANGED <<modalVars, viewVars, formVars, fetches, categoryCounts, request,
                   response>>

-----------------------------------------------------------------------------
(* Specifications *)

\* the backend has started once and no client has called it
ApiQuiet ==
    /\ starts = 1
    /\ fetches = <<>>
    /\ categoryCounts = [c \in {} |-> 0]
    /\ request = NoFilters
    /\ response = NoResponse

\* no card has rendered and nothing was copied
CardQuiet ==
    /\ cardShown = FALSE
    /\ promptOnlyText = Null
    /\ preview = Null
    /\ clipboard = NoClip

\* the category picker before the categories arrived
PickerQuiet ==
    /\ categories = <<>>
    /\ allHierarchicalCategories = categoryHierarchy

\* the state of usePrompts and HomePage before the mount effects
HomeQuiet ==
    /\ filters = NoFilters
    /\ prompts = <<>>
    /\ loading = TRUE
    /\ hookError = Null
    /\ listFetches = <<>>
    /\ selectedPrompt = NoSelection
    /\ opens = <<>>

ViewQuiet == CardQuiet /\ PickerQuiet /\ HomeQuiet

ModalClosed ==
    /\ modalShown = FALSE
    /\ promptText = Null
    /\ exampleText = Null
    /\ mainCategory = Null
    /\ subCategory = Null

PageNotMounted ==
    /\ store = <<>>
    /\ formData = EmptyForm
    /\ existingPrompts = <<>>
    /\ loadState = "pending"
    /\ submitState = "idle"
    /\ submitting = FALSE
    /\ error = Null
    /\ success = FALSE
    /\ createReq = Null

\* the detail modal opened on a prompt with any body
InitSplit ==
    /\ ApiQuiet
    /\ ViewQuiet
    /\ prompt \in [prompt_text : Bodies, category : {CategoryAB}]
    /\ ModalClosed
    /\ PageNotMounted

SpecSplit == InitSplit /\ [][RenderModal]_vars

\* the detail modal opened on a prompt with any category
InitCategory ==
    /\ ApiQuiet
    /\ ViewQuiet
    /\ prompt \in [prompt_text : {<<"a">>}, category : Categories]
    /\ ModalClosed
    /\ PageNotMounted

SpecCategory == InitCategory /\ [][RenderModal]_vars

\* the add-prompt page with its list loaded and its form filled in
InitGuard ==
    /\ ApiQuiet
    /\ ViewQuiet
    /\ prompt = NoPrompt
    /\ ModalClosed
    /\ store \in {tableOf(q) :
                     q \in SeqsUpTo([title : Titles, category : StoredCategories],
                                    MaxExisting)}
    /\ formData \in {[EmptyForm EXCEPT !.title = t, !.category = c,
                                        !.prompt_text = <<"a">>] :
                         t \in Titles, c \in FormCategories}
    /\ existingPrompts = getPrompts(store, LoadLimit)
    /\ loadState = "done"
    /\ submitState = "idle"
    /\ submitting = FALSE
    /\ error = Null
    /\ success = FALSE
    /\ createReq = Null

NextGuard == SubmitDuplicate \/ SubmitCreate \/ CreateOk \/ CreateFail

SpecGuard == InitGuard /\ [][NextGuard]_vars

\* the add-prompt page from its mount on, with other clients of the store
InitPage ==
    /\ ApiQuiet
    /\ ViewQuiet
    /\ prompt = NoPrompt
    /\ ModalClosed
    /\ store \in {tableOf(q) :
                     q \in SeqsUpTo([title : {<<"A">>}, category : {CategoryAB}],
                                    MaxExisting)}
    /\ formData = EmptyForm
    /\ existingPrompts = <<>>
    /\ loadState = "pending"
    /\ submitState = "idle"
    /\ submitting = FALSE
    /\ error = Null
    /\ success = FALSE
    /\ createReq = Null

NextPage ==
    \/ LoadPromptsOk
    \/ LoadPromptsFail
    \/ HandleChangeTitle
    \/ HandleChangeCategory
    \/ HandleChangePromptText
    \/ SubmitDuplicate
    \/ SubmitCreate
    \/ CreateOk
    \/ CreateFail
    \/ SuccessTimeout
    \/ OtherClientCreate

SpecPage == InitPage /\ [][NextPage]_vars

\* the add-prompt page as the only client of the store: its submissions follow
\* one another, the buttons being disabled while one is in flight
NextSolo ==
    \/ LoadPromptsOk
    \/ LoadPromptsFail
    \/ HandleChangeTitle
    \/ HandleChangeCategory
    \/ HandleChangePromptText
    \/ SubmitDuplicate
    \/ SubmitCreate
    \/ CreateOk
    \/ CreateFail
    \/ SuccessTimeout

SpecSolo == InitPage /\ [][NextSolo]_vars

FormIdle ==
    /\ formData = EmptyForm
    /\ existingPrompts = <<>>
    /\ loadState = "pending"
    /\ submitState = "idle"
    /\ submitting = FALSE
    /\ error = Null
    /\ success = FALSE
    /\ createReq = Null

\* the store after the first start of the backend, and its clients
InitApi ==
    /\ prompt = NoPrompt
    /\ ModalClosed
    /\ FormIdle
    /\ ViewQuiet
    /\ starts = 1
    /\ \E failed \in SUBSET (1..Len(SeedData)) : store = seed(<<>>, failed)
    /\ fetches = <<>>
    /\ categoryCounts = [c \in {} |-> 0]
    /\ request = NoFilters
    /\ response = NoResponse

NextApi ==
    \/ Startup
    \/ CreatePrompt
    \/ GetPrompt
    \/ ServeGetPrompt
    \/ GetPrompts
    \/ GetCategories
    \/ FetchCategoryCounts

SpecApi == InitApi /\ [][NextApi]_vars

\* the row of an artifact, without its id
ArtifactOf(t, b, c, tg, v, at) ==
    [title |-> t, prompt_text |-> b, category |-> c, tags |-> tg, views |-> v,
     created_at |-> at]

\* the table with the rows of q, ids in insertion order
tableFrom(q) == [i \in 1..Len(q) |-> [id |-> i] @@ q[i]]

\* the insert times of n rows of which the first k were seeded in one go
insertTimes(n, k) == [i \in 1..n |-> IF i <= k THEN 1 ELSE i - k + 1]

PlainTitle == <<"T">>
PlainText == <<"x">>

\* stores and parameters that exercise limit and offset, with a category filter
PaginationInputs ==
    /\ store \in {tableFrom(q) :
                     q \in SeqsUpTo({ArtifactOf(PlainTitle, PlainText, c, <<>>, 0, 1) :
                                        c \in {CategoryAB, <<"B">>}}, MaxArtifacts)}
    /\ request \in {c @@ l @@ o :
                       c \in {NoFilters, handleCategoryChange(NoFilters, CategoryAB)},
                       l \in {NoFilters} \cup {[limit |-> n] : n \in -1..MaxArtifacts},
                       o \in {NoFilters} \cup {[offset |-> n] : n \in 0..MaxArtifacts + 1}}

\* stores with equal and different views and insert times, and the sort keys
SortInputs ==
    /\ \E n \in 0..MaxArtifacts :
          \E k \in (IF n = 0 THEN {0} ELSE 1..n), v \in [1..n -> 0..1] :
              store = tableFrom([i \in 1..n |->
                                   ArtifactOf(PlainTitle, PlainText, CategoryAB, <<>>,
                                              v[i], insertTimes(n, k)[i])])
    /\ request \in {NoFilters}
                       \cup {handleSortChange(NoFilters, k) : k \in {"date", "popularity"}}

\* the terms typed into the search box
SearchTerms == {<<>>, <<" ">>, <<" ", " ">>, <<"example">>, <<"EXAMPLE">>, <<"y">>}

\* stores with the word example in a title, a text or a tag, and the search terms
SearchInputs ==
    /\ store \in {tableFrom(q) :
                     q \in SeqsUpTo({ArtifactOf(t, b, CategoryAB, tg, 0, 1) :
                                        t \in {<<"Example">>, <<"Sample">>},
                                        b \in {PlainText, <<"example", " ", "y">>},
                                        tg \in {<<>>, << <<"z">>, <<"EXAMPLE">> >>}},
                                    MaxArtifacts)}
    /\ request \in {handleSearch(NoFilters, term) : term \in SearchTerms}

\* the values of the category filter
FilterCategories == {CategoryAB, <<"B">>, <<"A">>, toLowerCase(CategoryAB)}

\* stores with flat and two-level categories, and the category filters
CategoryInputs ==
    /\ store \in {tableFrom(q) :
                     q \in SeqsUpTo({ArtifactOf(PlainTitle, PlainText, c, <<>>, 0, 1) :
                                        c \in FilterCategories}, MaxArtifacts)}
    /\ request \in {handleCategoryChange(NoFilters, c) : c \in FilterCategories \cup {<<>>}}

\* a list request about to be answered
InitQuery ==
    /\ prompt = NoPrompt
    /\ ModalClosed
    /\ FormIdle
    /\ ViewQuiet
    /\ starts = 1
    /\ fetches = <<>>
    /\ categoryCounts = [c \in {} |-> 0]
    /\ response = NoResponse
    /\ PaginationInputs \/ SortInputs \/ SearchInputs \/ CategoryInputs

SpecQuery == InitQuery /\ [][GetPrompts]_vars

\* the pieces of the bodies a card is rendered with
CardPieces ==
    {<<"a">>, <<" ">>, ExampleDelimiter, <<"\n", "example", ":">>,
     <<"\n">> \o markers[1], <<"\n">> \o markers[3], <<"\n">> \o markers[6]}

Fifty == "aaaaaaaaaaaaaaaaaaaaaaaaaaaaaaaaaaaaaaaaaaaaaaaaaa"

\* a word of 150 characters
LongWord == Fifty \o Fifty \o Fifty

\* short bodies, and bodies that begin with the long word
CardBodies ==
    Concats(CardPieces, MaxPieces)
        \cup {<<LongWord>> \o b : b \in Concats(CardPieces, MaxPieces - 1)}

\* a prompt shown as a card of the list and in the detail modal
InitCard ==
    /\ ApiQuiet
    /\ ViewQuiet
    /\ prompt \in [prompt_text : CardBodies, category : {CategoryAB}]
    /\ ModalClosed
    /\ PageNotMounted

NextCard == RenderCard \/ RenderModal \/ CardCopy \/ ModalCopy

SpecCard == InitCard /\ [][NextCard]_vars

\* the category strings of the artifacts the picker is derived from
PickerCategories ==
    {<<"B">>, CategoryAB, CategoryBA, CategoryAB \o CategorySeparator \o <<"A">>,
     <<"A">> \o CategorySeparator,
     <<"Text", " ", "Analysis">> \o CategorySeparator \o <<"Sentiment", " ", "Analysis">>}

\* the add-prompt page mounted on a store, its categories request in flight
InitPicker ==
    /\ prompt = NoPrompt
    /\ ModalClosed
    /\ FormIdle
    /\ ViewQuiet
    /\ starts = 1
    /\ fetches = <<>>
    /\ categoryCounts = [c \in {} |-> 0]
    /\ request = NoFilters
    /\ response = NoResponse
    /\ store \in {tableFrom(q) :
                     q \in SeqsUpTo({ArtifactOf(PlainTitle, PlainText, c, <<>>, 0, 1) :
                                        c \in PickerCategories}, MaxArtifacts)}

NextPicker == FetchCategoriesOk \/ FetchCategoriesFail

SpecPicker == InitPicker /\ [][NextPicker]_vars

\* the pieces of the texts typed into the tags input
TagPieces == {<<"x">>, <<"y">>, <<",">>, <<" ">>, <<",", " ">>}

\* the add-prompt page, loaded on an empty store, with a filled form
FormReady ==
    /\ store = <<>>
    /\ existingPrompts = <<>>
    /\ loadState = "done"
    /\ submitState = "idle"
    /\ submitting = FALSE
    /\ error = Null
    /\ success = FALSE
    /\ createReq = Null

\* a form with the required fields and the tags input filled in
InitTags ==
    /\ ApiQuiet
    /\ ViewQuiet
    /\ prompt = NoPrompt
    /\ ModalClosed
    /\ FormReady
    /\ formData \in {[EmptyForm EXCEPT !.title = <<"A">>, !.category = CategoryAB,
                                        !.prompt_text = <<"a">>, !.tags = t] :
                         t \in Concats(TagPieces, MaxPieces)}

NextTags == SubmitCreate \/ CreateOk \/ CreateFail

SpecTags == InitTags /\ [][NextTags]_vars

\* the pieces of the texts typed into the prompt and the example textarea
FormPromptPieces == {<<"a">>, <<" ">>, <<"\n">> \o markers[1], ExampleDelimiter}
FormExamplePieces == {<<"a">>, <<" ">>, <<"\n">>, ExampleDelimiter}

\* a form with a prompt and an example typed in, the home page not yet open
InitCompose ==
    /\ ApiQuiet
    /\ ViewQuiet
    /\ prompt = NoPrompt
    /\ ModalClosed
    /\ FormReady
    /\ formData \in {[EmptyForm EXCEPT !.title = <<"A">>, !.category = CategoryAB,
                                        !.prompt_text = p, !.example_output = e] :
                         p \in Concats(FormPromptPieces, MaxFormPieces) \ {<<>>},
                         e \in Concats(FormExamplePieces, MaxFormPieces)}

\* the prompt is submitted, then listed on the home page and opened
NextCompose ==
    \/ SubmitCreate
    \/ CreateOk
    \/ CreateFail
    \/ MountHome
    \/ FetchPromptsOk
    \/ OpenPromptModal
    \/ ServeGetPrompt
    \/ OpenPromptModalOk
    \/ RenderModal

SpecCompose == InitCompose /\ [][NextCompose]_vars

\* the add-prompt page mounted on an empty store, as its only client
InitFresh ==
    /\ ApiQuiet
    /\ ViewQuiet
    /\ prompt = NoPrompt
    /\ ModalClosed
    /\ PageNotMounted

SpecFresh == InitFresh /\ [][NextSolo]_vars

\* the rows of the store the home page lists
HomeRows ==
    <<ArtifactOf(<<"Example">>, PlainText, CategoryAB, <<>>, 1, 1),
      ArtifactOf(<<"Sample">>, PlainText, <<"B">>, <<>>, 0, 2)>>

HomeStores == {tableFrom(SubSeq(HomeRows, 1, n)) : n \in 1..Len(HomeRows)}

\* the home page before its mount effects, on a store with prompts
InitHook ==
    /\ ApiQuiet
    /\ ViewQuiet
    /\ prompt = NoPrompt
    /\ ModalClosed
    /\ FormIdle
    /\ store \in HomeStores

NextHook == MountHome \/ ChangeFilters \/ FetchPromptsOk \/ FetchPromptsFail

SpecHook == InitHook /\ [][NextHook]_vars

\* the filters of the i-th list fetch of a page whose sort order was switched
\* after the mount, again and again
RECURSIVE filtersOfVisit(_)
filtersOfVisit(i) ==
    IF i = 1
    THEN NoFilters
    ELSE handleSortChange(filtersOfVisit(i - 1),
                          IF i % 2 = 0 THEN "popularity" ELSE "date")

\* the answered list fetches of that page, on the store st
answeredVisits(n, st) ==
    [i \in 1..n |-> [filters |-> filtersOfVisit(i), status |-> "ok",
                     data |-> query(st, filtersOfVisit(i))]]

\* the home page with its lists loaded, one more change of the filters left
\* in the run, and no prompt selected
InitOpen ==
    /\ ApiQuiet
    /\ CardQuiet
    /\ PickerQuiet
    /\ prompt = NoPrompt
    /\ ModalClosed
    /\ FormIdle
    /\ store \in HomeStores
    /\ listFetches = answeredVisits(MaxListFetches - 1, store)
    /\ filters = listFetches[Len(listFetches)].filters
    /\ prompts = listFetches[Len(listFetches)].data
    /\ loading = FALSE
    /\ hookError = Null
    /\ selectedPrompt = NoSelection
    /\ opens = <<>>

NextOpen ==
    \/ OpenPromptModal
    \/ ServeGetPrompt
    \/ FailGetPrompt
    \/ OpenPromptModalOk
    \/ OpenPromptModalFail
    \/ ClosePromptModal
    \/ RenderModal
    \/ ChangeFilters
    \/ FetchPromptsOk

SpecOpen == InitOpen /\ [][NextOpen]_vars

Init == InitPage

Next == NextPage

Spec == SpecPage

-----------------------------------------------------------------------------
(* Properties of the content splitter (SpecSplit) *)

body == prompt.prompt_text

\* text before, and all text after, the first occurrence of pat in s
beforeFirst(s, pat) == SubSeq(s, 1, indexOf(s, pat))
afterFirst(s, pat) == SubSeq(s, indexOf(s, pat) + Len(pat) + 1, Len(s))

\* offsets at which a marker phrase, in any case, follows a newline
PhraseOffsets(s) ==
    {i \in 0..Len(s) :
        \E k \in 1..Len(markers) :
            /\ i + 1 + Len(markers[k]) <= Len(s)
            /\ s[i + 1] = "\n"
            /\ \A j \in 1..Len(markers[k]) :
                    lowerLexeme(s[i + 1 + j]) = lowerLexeme(markers[k][j])}

Least(S) == CHOOSE x \in S : \A y \in S : x <= y

HasDelimiter(s) == \E i \in 0..Len(s) : occursAt(s, ExampleDelimiter, i)

\* the example begins with one of the marker phrases
StartsWithPhrase(s) ==
    \E k \in 1..Len(markers) :
        /\ Len(s) >= Len(markers[k])
        /\ toLowerCase(SubSeq(s, 1, Len(markers[k]))) = toLowerCase(markers[k])

\* C1: a body with the delimiter is split at its first occurrence only: prompt is
\* the trimmed text before it and example is the trimmed whole text after it,
\* later delimiters included.
C1_SplitAtFirstDelimiterOnly ==
    (modalShown /\ HasDelimiter(body)) =>
        /\ promptText = trim(beforeFirst(body, ExampleDelimiter))
        /\ exampleText = trim(afterFirst(body, ExampleDelimiter))

\* C2: when nothing follows the first delimiter, example is null and prompt is
\* the trimmed text before the delimiter.
C2_NothingAfterDelimiterGivesNull ==
    (modalShown /\ HasDelimiter(body) /\ afterFirst(body, ExampleDelimiter) = <<>>) =>
        /\ exampleText = Null
        /\ promptText = trim(beforeFirst(body, ExampleDelimiter))

\* C3 as stated: splitting the prompt part again gives the same prompt, for every body.
C3_SplitIdempotent ==
    modalShown => separatePromptAndExample(promptText).prompt = promptText

\* C3 amended: splitting the prompt part again gives the same prompt for every
\* body without the delimiter, and for every body with the delimiter whose
\* trimmed text before the first delimiter has no marker phrase after a newline.
C3_SplitIdempotentWithoutPhraseBeforeDelimiter ==
    (/\ modalShown
     /\ HasDelimiter(body) =>
            PhraseOffsets(trim(beforeFirst(body, ExampleDelimiter))) = {})
        => separatePromptAndExample(promptText).prompt = promptText

\* a body split at a marker phrase that has text before it
C3_Witness ==
    /\ modalShown
    /\ ~HasDelimiter(body)
    /\ PhraseOffsets(body) # {}
    /\ promptText # <<>>
    /\ exampleText # Null

\* C4: without the delimiter, the split point is the lowest offset at which any
\* of the nine phrases, in any case, follows a newline; prompt is the trimmed
\* text before it, example the trimmed text from it on, starting with the phrase.
C4_HeuristicSplitsAtLowestOffset ==
    (modalShown /\ ~HasDelimiter(body) /\ PhraseOffsets(body) # {}) =>
        LET o == Least(PhraseOffsets(body))
        IN  /\ promptText = trim(SubSeq(body, 1, o))
            /\ exampleText = trim(SubSeq(body, o + 1, Len(body)))
            /\ StartsWithPhrase(exampleText)

\* two phrases occur, the one later in the list first in the body, in lower case
\* or not, and the body was split at it
C4_Witness ==
    /\ modalShown
    /\ ~HasDelimiter(body)
    /\ \E j, k \in 1..Len(markers) :
            /\ j < k
            /\ matchIndex(body, markers[k]) # -1
            /\ matchIndex(body, markers[k]) < matchIndex(body, markers[j])
            /\ toLowerCase(SubSeq(exampleText, 1, Len(markers[k]))) = toLowerCase(markers[k])

C6_SplitterTotal ==
    /\ ~modalShown => separatePromptAndExample(body).prompt # Null
    /\ modalShown =>
        /\ promptText # Null
        /\ (~HasDelimiter(body) /\ PhraseOffsets(body) = {}) =>
                (promptText = trim(body) /\ exampleText = Null)
        /\ body = <<>> => (promptText = <<>> /\ exampleText = Null)

\* a body with surrounding whitespace and no delimiter or phrase was rendered
C6_Witness ==
    /\ modalShown
    /\ ~HasDelimiter(body)
    /\ PhraseOffsets(body) = {}
    /\ body # trim(body)
    /\ trim(body) # <<>>
    /\ exampleText = Null

-----------------------------------------------------------------------------
(* Properties of parseCategory (SpecCategory) *)

HasSeparator(s) == \E i \in 0..Len(s) : occursAt(s, CategorySeparator, i)

\* C7: a category with the separator is split at its first occurrence, main the
\* trimmed text before it and sub the trimmed whole text after it; a category
\* without the separator gives main null and sub the category unchanged.
C7_ParseCategoryAtFirstSeparator ==
    modalShown =>
        /\ (HasSeparator(prompt.category)
                /\ trim(afterFirst(prompt.category, CategorySeparator)) # <<>>) =>
                /\ mainCategory = trim(beforeFirst(prompt.category, CategorySeparator))
                /\ subCategory = trim(afterFirst(prompt.category, CategorySeparator))
        /\ ~HasSeparator(prompt.category) =>
                (mainCategory = Null /\ subCategory = prompt.category)

\* C8: when the split yields an empty sub, the whole string is treated as flat:
\* main is null and sub is the category string.
C8_EmptySubFallsBackToFlat ==
    (/\ modalShown
     /\ HasSeparator(prompt.category)
     /\ trim(afterFirst(prompt.category, CategorySeparator)) = <<>>)
        => (mainCategory = Null /\ subCategory = prompt.category)

-----------------------------------------------------------------------------
(* Properties of the duplicate guard (SpecGuard, SpecPage) *)

\* title and category are equal after trimming and lower-casing both
SameNormalized(a, b) ==
    /\ toLowerCase(trim(a.title)) = toLowerCase(trim(b.title))
    /\ toLowerCase(trim(a.category)) = toLowerCase(trim(b.category))

Collides(existing, candidate) ==
    \E i \in 1..Len(existing) : SameNormalized(existing[i], candidate)

\* C9: the guard reports a duplicate exactly when some existing artifact has the
\* same title and the same category as the candidate, both trimmed and compared
\* case-insensitively.
C9_DuplicateIffNormalizedEqual ==
    /\ submitState = "creating" => ~Collides(existingPrompts, createReq)
    /\ error = DuplicateMessage => Collides(existingPrompts, formData)

\* the duplicate check is evaluated in this step
GuardEvaluated ==
    \/ submitState = "idle" /\ submitState' = "creating"
    \/ error # DuplicateMessage /\ error' = DuplicateMessage

\* C10: whenever a submission is evaluated, every artifact in the store at that
\* moment is in the set the guard compares against.
C10_GuardSeesFullStore ==
    [][GuardEvaluated =>
        \A i \in 1..Len(store) :
            \E j \in 1..Len(existingPrompts) : existingPrompts[j] = store[i]]_vars

\* a submission step taken while the duplicate check finds a collision
RejectedSubmission ==
    /\ CanSubmit
    /\ isDuplicate(existingPrompts, formData)
    /\ \/ error' # error
       \/ submitState' # submitState
       \/ submitting' # submitting
       \/ createReq' # createReq

\* C11: when the duplicate check reports a collision for a submission, no create
\* request is issued for it, the store is unchanged, and the page shows the
\* 'already exists' error, which differs from the error of a failed create.
C11_DuplicateRejectedBeforeCreate ==
    [][RejectedSubmission =>
        /\ store' = store
        /\ submitState' = "idle"
        /\ ~submitting'
        /\ createReq' = Null
        /\ error' = DuplicateMessage
        /\ error' # CreateFailedMessage]_vars

\* a submission was rejected as a duplicate and nothing was sent
C11_Witness ==
    /\ error = DuplicateMessage
    /\ isDuplicate(existingPrompts, formData)
    /\ submitState = "idle"
    /\ createReq = Null
    /\ store # <<>>

\* no two artifacts of db have the same normalized (title, category)
KeysUnique(db) ==
    \A i, j \in 1..Len(db) : SameNormalized(db[i], db[j]) => i = j

\* C12: when submissions do not overlap, each one running its guard and its
\* create before the next one starts, no step makes two stored artifacts share
\* a normalized (title, category).
C12_SerialSubmissionsKeepKeysUnique ==
    [][KeysUnique(store) => KeysUnique(store')]_vars

-----------------------------------------------------------------------------
(* Properties of the store behind the API (SpecApi) *)

\* the fetch k is answered in this step
Served(k) == fetches[k].status = "sent" /\ fetches'[k].status = "ok"

\* the answered fetches of the artifact id
OkFetches(id) ==
    {k \in 1..Len(fetches) : fetches[k].id = id /\ fetches[k].status = "ok"}

\* C13: every answered single-item fetch raises the views of its artifact by
\* exactly 1 and returns the raised value; however the fetches of one artifact
\* interleave, its views is the number of fetches answered, and no two of them
\* return the same value.
C13_ViewsCountEveryFetch ==
    [][/\ \A k \in 1..Len(fetches) :
              Served(k) =>
                  /\ store'[fetches[k].id].views = store[fetches[k].id].views + 1
                  /\ fetches'[k].data.views = store'[fetches[k].id].views
       /\ \A id \in 1..Len(store') :
              /\ store'[id].views = Cardinality(OkFetches(id)')
              /\ \A k, l \in OkFetches(id)' :
                      k # l => fetches'[k].data.views # fetches'[l].data.views]_vars

\* two fetches of one artifact overlapped: the one sent later was answered first
C13_Witness ==
    \E k, l \in 1..Len(fetches) :
        /\ k < l
        /\ fetches[k].id = fetches[l].id
        /\ fetches[k].status = "ok"
        /\ fetches[l].status = "ok"
        /\ fetches[l].data.views < fetches[k].data.views
        /\ store[fetches[k].id].views = 2

\* C14: a new artifact has views 0; the views of an artifact never decreases,
\* and it changes only in a step that answers a single-item fetch of that
\* artifact: listing, categories, stats, creating and seeding leave it as it is.
C14_ViewsChangeOnlyOnFetch ==
    [][/\ Len(store') >= Len(store)
       /\ \A i \in 1..Len(store) :
              /\ store'[i].views >= store[i].views
              /\ store'[i].views # store[i].views =>
                     \E k \in 1..Len(fetches) : Served(k) /\ fetches[k].id = i
       /\ \A i \in (Len(store) + 1)..Len(store') : store'[i].views = 0
       /\ (\/ categoryCounts' # categoryCounts
           \/ response'.endpoint # response.endpoint
           \/ starts' # starts
           \/ Len(store') # Len(store)) =>
              \A i \in 1..Len(store) : store'[i].views = store[i].views]_vars

\* after a view was counted, the list was read, the stats were fetched, the
\* backend restarted and another artifact sits in the store with views 0
C14_Witness ==
    /\ Len(store) >= 2
    /\ store[1].views >= 1
    /\ store[Len(store)].views = 0
    /\ response.endpoint = "prompts"
    /\ response.data = query(store, request)
    /\ categoryCounts = stats(store).categories
    /\ starts >= 2

\* how many rows of db are the seed record d
SeedCopies(db, d) ==
    Cardinality({i \in 1..Len(db) :
                    db[i].title = d.title /\ db[i].category = d.category})

\* C15: a start of the backend on a store that holds an artifact leaves the
\* store as it is; a store that holds an artifact never becomes empty, so the
\* store holds every bundled seed record at most once.
C15_SeedIsNoOpOnNonEmptyStore ==
    [][/\ (starts' # starts /\ store # <<>>) => store' = store
       /\ store # <<>> => store' # <<>>
       /\ \A i \in 1..Len(SeedData) : SeedCopies(store', SeedData[i]) <= 1]_vars

\* the backend started a second time on a seeded store that clients had added to
C15_Witness ==
    /\ starts >= 2
    /\ SeedCopies(store, SeedData[1]) = 1
    /\ \E i \in 1..Len(store) :
            \A k \in 1..Len(SeedData) : store[i].title # SeedData[k].title

\* how many rows of db have exactly the category c
CountOf(db, c) == Cardinality({i \in 1..Len(db) : db[i].category = c})

RECURSIVE SumOf(_)
SumOf(counts) ==
    IF DOMAIN counts = {}
    THEN 0
    ELSE LET c == CHOOSE x \in DOMAIN counts : TRUE
         IN  counts[c] + SumOf([x \in DOMAIN counts \ {c} |-> counts[x]])

\* the labels of the option groups and options of the category select
PickerLabels == {<<"A">>, <<"B">>}

\* C20: the counts a stats call returns have one entry for every category
\* string in the store at that moment, the number of artifacts with exactly
\* that string; they add up to the total; and the count shown for an option
\* is the number of artifacts whose category is exactly `Main > Sub`.
C20_CountsAreExactCategoryCounts ==
    [][categoryCounts' # categoryCounts =>
        /\ DOMAIN categoryCounts' = {store[i].category : i \in 1..Len(store)}
        /\ \A c \in DOMAIN categoryCounts' : categoryCounts'[c] = CountOf(store, c)
        /\ SumOf(categoryCounts') = Len(store)
        /\ stats(store).total = Len(store)
        /\ \A mainCat, subCat \in PickerLabels :
                optionCount(categoryCounts', mainCat, subCat)
                    = CountOf(store, mainCat \o CategorySeparator \o subCat)]_vars

\* the stats were fetched from a store with a flat category B and with A > B
C20_Witness ==
    /\ categoryCounts = stats(store).categories
    /\ <<"B">> \in DOMAIN categoryCounts
    /\ CategoryAB \in DOMAIN categoryCounts
    /\ optionCount(categoryCounts, <<"A">>, <<"B">>) = 1

-----------------------------------------------------------------------------
(* Properties of the list query (SpecQuery) *)

\* the list request was answered
Answered == response.endpoint = "prompts"

listed == response.data

\* the rows after the filters and the sort, before limit and offset apply
Unpaged ==
    sortArtifacts(searchFilter(categoryFilter(store, request), request),
                  sortKeyOf(request))

Unlimited == "limit" \notin DOMAIN request /\ "offset" \notin DOMAIN request

IdsOf(rows) == {rows[i].id : i \in 1..Len(rows)}

\* C16: the answer is the filtered and sorted sequence without its first
\* offset elements (0 when absent), cut to limit elements (100 when absent);
\* it is empty when offset is at or beyond the length, and when limit <= 0.
C16_OffsetThenLimit ==
    Answered =>
        LET offset == IF "offset" \in DOMAIN request THEN request.offset ELSE 0
            limit == IF "limit" \in DOMAIN request THEN request.limit ELSE 100
            rest == IF offset >= Len(Unpaged) THEN 0 ELSE Len(Unpaged) - offset
            n == IF limit <= 0 THEN 0 ELSE IF limit < rest THEN limit ELSE rest
        IN  /\ Len(listed) = n
            /\ \A i \in 1..n : listed[i] = Unpaged[offset + i]

\* one row was skipped, one returned and one cut off
C16_Witness ==
    /\ Answered
    /\ "offset" \in DOMAIN request
    /\ "limit" \in DOMAIN request
    /\ request.offset = 1
    /\ request.limit = 1
    /\ Len(Unpaged) = 3
    /\ listed = <<Unpaged[2]>>

\* the rows are in the order of the sort key
SortedByKey ==
    Answered =>
        \A i, j \in 1..Len(listed) :
            i < j =>
                IF "sort" \in DOMAIN request /\ request.sort = "popularity"
                THEN \/ listed[i].views > listed[j].views
                     \/ /\ listed[i].views = listed[j].views
                        /\ listed[i].created_at >= listed[j].created_at
                ELSE \/ listed[i].created_at > listed[j].created_at
                     \/ /\ listed[i].created_at = listed[j].created_at
                        /\ listed[i].id > listed[j].id

Occurs(s, term) ==
    \E i \in 0..Len(s) :
        /\ i + Len(term) <= Len(s)
        /\ \A j \in 1..Len(term) : lowerLexeme(s[i + j]) = lowerLexeme(term[j])

TermIn(a, term) ==
    \/ Occurs(a.title, term)
    \/ Occurs(a.prompt_text, term)
    \/ \E k \in 1..Len(a.tags) : Occurs(a.tags[k], term)

IsBlank(s) == \A i \in 1..Len(s) : s[i] \in WhiteSpace

SameString(a, b) == Len(a) = Len(b) /\ \A i \in 1..Len(a) : a[i] = b[i]

\* C19: with a category filter the list holds exactly the rows whose stored
\* category is the filter string; the filter `A > B` keeps no row of category
\* `B`, and the filter `B` keeps no row of category `A > B`.
C19_CategoryFilterIsExact ==
    (Answered /\ Unlimited /\ "category" \in DOMAIN request
        /\ "search" \notin DOMAIN request) =>
        /\ IdsOf(listed)
               = {store[i].id : i \in {k \in 1..Len(store) :
                       SameString(store[k].category, request.category)}}
        /\ \A i, j \in 1..Len(listed) : listed[i].id = listed[j].id => i = j
        /\ request.category = CategoryAB =>
               \A i \in 1..Len(listed) : listed[i].category # <<"B">>
        /\ request.category = <<"B">> =>
               \A i \in 1..Len(listed) : listed[i].category # CategoryAB

\* the filter B kept the rows of category B and dropped a row of category A > B
C19_Witness ==
    /\ Answered
    /\ "category" \in DOMAIN request
    /\ request.category = <<"B">>
    /\ \E i \in 1..Len(store) : store[i].category = CategoryAB
    /\ Len(listed) >= 1
    /\ \A i \in 1..Len(listed) : listed[i].category = <<"B">>

-----------------------------------------------------------------------------
(* Properties of the category picker (SpecPicker) *)

\* the hierarchy entry a category string belongs to: its main label, or the
\* entry of the categories without a main label
EntryOf(c) ==
    IF HasSeparator(c) /\ trim(afterFirst(c, CategorySeparator)) # <<>>
    THEN trim(beforeFirst(c, CategorySeparator))
    ELSE Null

\* the sub label of a category string
SubOf(c) ==
    IF HasSeparator(c) /\ trim(afterFirst(c, CategorySeparator)) # <<>>
    THEN trim(afterFirst(c, CategorySeparator))
    ELSE c

\* the entries of h that hold the sub label of c under the main label of c
EntriesWith(h, c) ==
    {m \in DOMAIN h : m = EntryOf(c) /\ \E i \in 1..Len(h[m]) : h[m][i] = SubOf(c)}

\* the picker was derived from the categories of the store
PickerDerived ==
    /\ store # <<>>
    /\ {categories[i] : i \in 1..Len(categories)} = getCategories(store)

\* C21: in the hierarchy derived from an artifact set, every category string of
\* an artifact is held by exactly one entry, a flat category by the entry
\* without a main label and `Main > Sub` by the entry Main, and no entry lists
\* a sub label twice.
C21_EveryCategoryInOneEntry ==
    PickerDerived =>
        /\ \A i \in 1..Len(store) :
               Cardinality(EntriesWith(allHierarchicalCategories, store[i].category)) = 1
        /\ \A m \in DOMAIN allHierarchicalCategories :
               \A i, j \in 1..Len(allHierarchicalCategories[m]) :
                   allHierarchicalCategories[m][i] = allHierarchicalCategories[m][j]
                       => i = j

-----------------------------------------------------------------------------
(* Properties of the card (SpecCard) *)

\* the prompt part of a body: the trimmed text before the first delimiter,
\* without a delimiter the trimmed text before the first marker phrase at a
\* line start, without either the trimmed body
PromptPartOf(s) ==
    IF HasDelimiter(s)
    THEN trim(beforeFirst(s, ExampleDelimiter))
    ELSE IF PhraseOffsets(s) # {}
         THEN trim(SubSeq(s, 1, Least(PhraseOffsets(s))))
         ELSE trim(s)

\* C22: the text a copy button writes to the clipboard, on the card and in the
\* detail modal, is the prompt part of the body, without any of the example.
C22_CopyWritesPromptOnly ==
    clipboard.by # "none" => clipboard.text = PromptPartOf(body)

\* the characters of s as one string
RECURSIVE Chars(_)
Chars(s) == IF s = <<>> THEN "" ELSE Head(s) \o Chars(Tail(s))

\* the first 150 characters and `...` of a longer text, a shorter text as it is
Truncated(s) ==
    IF Len(Chars(s)) > 150 THEN SubSeq(Chars(s), 1, 150) \o "..." ELSE Chars(s)

\* C23: the preview of a card is the truncation of the prompt part of the body,
\* whatever the example part is.
C23_PreviewTruncatesPromptOnly ==
    cardShown => Chars(preview) = Truncated(PromptPartOf(body))

-----------------------------------------------------------------------------
(* Properties of the submitted prompt data (SpecTags, SpecCompose) *)

\* the pieces of s between the commas, in order
Pieces(s) == split(s, <<",">>)

\* the indices of the pieces of s that are not blank
Kept(s) == {i \in 1..Len(Pieces(s)) : ~IsBlank(Pieces(s)[i])}

\* C24: the tags sent to create are the pieces of the tag input between its
\* commas that are not blank, each trimmed, in the order typed, repeated tags
\* kept; an input of commas and whitespace only gives the empty list.
C24_TagsTrimmedNonEmptyInOrder ==
    submitState = "creating" =>
        LET in == formData.tags
            out == createReq.tags
        IN  /\ \A k \in 1..Len(out) : out[k] # <<>> /\ out[k] = trim(out[k])
            /\ Len(out) = Cardinality(Kept(in))
            /\ \A i \in Kept(in) :
                   out[Cardinality({j \in Kept(in) : j <= i})] = trim(Pieces(in)[i])
            /\ (\A i \in 1..Len(in) : in[i] \in WhiteSpace \cup {","}) => out = <<>>

\* a tag typed twice, with blanks around it and an empty piece, was sent twice
C24_Witness ==
    /\ submitState = "creating"
    /\ formData.tags = <<"x", ",", " ", "x">>
    /\ createReq.tags = << <<"x">>, <<"x">> >>

\* the text the form stores for a prompt p and an example e that is not blank
Stored(p, e) == p \o <<"\n", "\n", "---", "EXAMPLE", "---", "\n", "\n">> \o e

\* C27: for a prompt p without the delimiter and an example e that is not
\* blank, the form stores p, the marker between blank lines, and e, and the
\* detail view of that body shows trim(p) as prompt and trim(e) as example;
\* with a blank example the form stores p alone.
C27_ComposeSplitRoundTrip ==
    /\ submitState = "creating" =>
           createReq.prompt_text
               = IF IsBlank(formData.example_output)
                 THEN formData.prompt_text
                 ELSE Stored(formData.prompt_text, formData.example_output)
    /\ modalShown =>
           \A p \in Concats(FormPromptPieces, MaxFormPieces),
              e \in Concats(FormExamplePieces, MaxFormPieces) :
               (~HasDelimiter(p) /\ ~IsBlank(e) /\ prompt.prompt_text = Stored(p, e)) =>
                   (promptText = trim(p) /\ exampleText = trim(e))

-----------------------------------------------------------------------------
(* Properties of usePrompts (SpecHook) *)

\* the hook has started a fetch and none is waiting for its answer
NoFetchInFlight ==
    /\ listFetches # <<>>
    /\ \A k \in 1..Len(listFetches) : listFetches[k].status # "sent"

\* the fetch started for the filters of now
LatestFetch == listFetches[Len(listFetches)]

\* C25: once no list fetch is in flight, prompts is the answer to the request
\* issued for the most recent filters, in whatever order the answers arrived.
C25_PromptsAreOfLatestFilters ==
    (NoFetchInFlight /\ LatestFetch.status = "ok") =>
        /\ LatestFetch.filters = filters
        /\ prompts = LatestFetch.data

\* C26: loading is true whenever a list fetch of the hook is in flight, also
\* when a second fetch started before the first ended; loading is false only
\* when no fetch is in flight.
C26_LoadingWhileFetchInFlight ==
    (\E k \in 1..Len(listFetches) : listFetches[k].status = "sent") => loading

-----------------------------------------------------------------------------
(* Properties of the submissions of one page (SpecFresh, SpecPage) *)

\* the same title, trimmed, and the same category, letter case ignored
SameKey(a, b) ==
    /\ toLowerCase(trim(a.title)) = toLowerCase(trim(b.title))
    /\ toLowerCase(a.category) = toLowerCase(b.category)

\* C28: a page that has created an artifact issues no later create request
\* with the same title and category; it rejects the submission as a duplicate.
C28_NoSecondCreateOfOwnArtifact ==
    submitState = "creating" =>
        \A i \in 1..Len(store) : ~SameKey(store[i], createReq)

\* steps of handleSubmit: rejected by the guard, let through, create answered,
\* create failed
StepRejected == submitState = "idle" /\ submitState' = "idle" /\ error' # error
StepPassed == submitState = "idle" /\ submitState' = "creating"
StepCreated == submitState = "creating" /\ submitState' = "idle" /\ store' # store
StepFailed == submitState = "creating" /\ submitState' = "idle" /\ store' = store

\* C29: submitting is true exactly from a passed duplicate check to the end
\* of the create request; a rejection and a failed create leave the form as it
\* is and set an error that is not empty; a successful create, and nothing
\* else, resets the form and sets success; submitting is false after each.
C29_SubmissionStates ==
    [][/\ submitting' <=> submitState' = "creating"
       /\ StepPassed => (~isDuplicate(existingPrompts, formData) /\ formData' = formData)
       /\ StepRejected =>
              /\ isDuplicate(existingPrompts, formData)
              /\ formData' = formData
              /\ error' # <<>> /\ error' # Null
              /\ ~submitting'
              /\ success' = success
       /\ StepFailed =>
              /\ formData' = formData
              /\ error' # <<>> /\ error' # Null
              /\ ~submitting'
              /\ success' = success
       /\ StepCreated => (formData' = EmptyForm /\ success' /\ ~submitting')
       /\ (success' /\ ~success) => StepCreated]_vars

\* a create failed while the success note of an earlier create was still shown
C29_Witness ==
    /\ error = CreateFailedMessage
    /\ ~submitting
    /\ submitState = "idle"
    /\ success
    /\ formData.title # <<>>
    /\ Len(store) >= 1

-----------------------------------------------------------------------------
(* Properties of openPromptModal (SpecOpen) *)

\* the call k of openPromptModal ends in this step, its fetch answered or failed
Opened(k, status) ==
    /\ k <= Len(opens)
    /\ ~opens[k].done
    /\ opens'[k].done
    /\ fetches[opens[k].fetch].status = status

\* C30: when the fetch of openPromptModal(prompt) is answered, the list entry
\* with the id of prompt becomes the fetched record, the other entries and
\* the order stay, and the modal shows the fetched record, so the modal and
\* the list agree on the views of that id; when the fetch fails, the modal
\* shows the prompt the card was clicked with and the list stays as it is.
C30_OpenReplacesOneEntry ==
    [][\A k \in 1..Len(opens') :
          /\ Opened(k, "ok") =>
                 LET fetched == fetches[opens[k].fetch].data
                 IN  /\ fetched.id = opens[k].prompt.id
                     /\ Len(prompts') = Len(prompts)
                     /\ \A i \in 1..Len(prompts) :
                            prompts'[i] = IF prompts[i].id = fetched.id
                                          THEN fetched
                                          ELSE prompts[i]
                     /\ selectedPrompt' = fetched
                     /\ prompt' = fetched
                     /\ \A i \in 1..Len(prompts') :
                            prompts'[i].id = selectedPrompt'.id =>
                                prompts'[i].views = selectedPrompt'.views
          /\ Opened(k, "failed") =>
                 /\ selectedPrompt' = opens[k].prompt
                 /\ prompt' = opens[k].prompt
                 /\ prompts' = prompts]_vars

\* one prompt was opened with a failed fetch and the second entry of the list
\* was opened with an answered one: the list shows its new views
C30_Witness ==
    /\ Len(prompts) = 2
    /\ selectedPrompt = prompts[2]
    /\ prompts[1].id # prompts[2].id
    /\ prompts[2].views = store[prompts[2].id].views
    /\ \E k \in 1..Len(opens) :
           /\ opens[k].done
           /\ fetches[opens[k].fetch].status = "ok"
           /\ opens[k].prompt.views < prompts[2].views
    /\ \E k \in 1..Len(opens) : opens[k].done /\ fetches[opens[k].fetch].status = "failed"

====
